---------------------------- MODULE Spec2Model ----------------------------
(* Batch image localization (main_app_new.py): N per-image jobs run as     *)
(* asyncio tasks over one aiohttp session whose connector admits at most   *)
(* MAX_WORKERS simultaneous connections; each job issues two or three      *)
(* remote calls through async_openrouter_call, which retries with backoff. *)
EXTENDS Integers, Sequences, FiniteSets, TLC

(* ------------------------------ bounds -------------------------------- *)

\* Largest number of uploaded files in one batch.
MaxBatch == 2

\* Connector limit.  The program sets MAX_WORKERS = 6 (main_app_new.py:29);
\* the model scales it down so that a batch can exceed it.
MAX_WORKERS == 1

(* ------------------------- program constants -------------------------- *)

MAX_RETRIES == 3

None == "None"

\* ASPECT_RATIO_OPTIONS values: None ("Original") or a ratio string.
Ratios == {None, "1:1"}

LOCALIZATION == "LOCALIZATION"
ASPECT == "ASPECT"
GENERATION == "GENERATION"
Labels == {LOCALIZATION, ASPECT, GENERATION}

\* Uploaded file names (f.name).
Names == {"a.jpg"}

(* --------------------- what one request can yield --------------------- *)

\* ok       200, JSON body with the fields the stage reads; for generation
\*          the image url is a base64 data URL
\* ok_plainurl  as ok, but the image url of a generation reply is a plain
\*          https URL, not a data URL
\* nofield  200, JSON body lacking choices
\* noimage  200, JSON body with choices and content but no images / url
\* badjson  200, body is not JSON: response.json() raises JSONDecodeError
\* http4xx  raise_for_status() raises ClientResponseError
\* neterr   connection error or 5xx (aiohttp.ClientError)
\* timeout  ClientTimeout(total=REQUEST_TIMEOUT) expires
Replies == {"ok", "ok_plainurl", "nofield", "noimage", "badjson", "http4xx", "neterr",
            "timeout"}

\* except (aiohttp.ClientError, asyncio.TimeoutError)
Caught == {"http4xx", "neterr", "timeout"}

\* str(e) of each exception; str(asyncio.TimeoutError()) is the empty string.
StrOf(e) ==
    CASE e = "http4xx" -> "401, message='Unauthorized'"
      [] e = "neterr" -> "Cannot connect to host"
      [] e = "timeout" -> ""
      [] e = "badjson" -> "Expecting value"
      [] e = "nofield" -> "'choices'"
      [] e = "noimage" -> "'images'"
      [] e = "encode" -> "a bytes-like object is required"
      [] OTHER -> e

\* str() of the RuntimeError raised at the end of async_openrouter_call.
ExhaustedMsg(label, last_error) == <<label, " failed after retries: ", last_error>>

\* 2 ** n
RECURSIVE Pow2(_)
Pow2(n) == IF n = 0 THEN 1 ELSE 2 * Pow2(n - 1)

\* Variant: asyncio.sleep(2 ** attempt)
BackoffDelayDouble(attempt) == Pow2(attempt)

\* asyncio.sleep(2 ** (attempt - 1))
BackoffDelay(attempt) == Pow2(attempt - 1)

(* ------------------------------- state -------------------------------- *)

VARIABLES
    phase,            \* where main() is: idle, processing, finished, stopped,
                      \* upload_error, zip_error (the loop raised)
    lastRun,          \* how the last script run ended before processing
    file_data_list,   \* pre-read uploads, in submission order
    ratio,            \* ASPECT_RATIO_OPTIONS[ratio_label]
    job,              \* index -> the task's position and the locals of its call
    issued,           \* index -> labels for which a request has been posted
    outcome,          \* index -> what the task returned or raised
    acquired,         \* connections the connector has handed out
    outOfOrder,       \* some task finished before a task of lower index
    gathered,         \* asyncio.gather: returned, raised, or still pending
    results,          \* what process_all_images_async returned
    sorted_results,   \* main(): the dicts of results sorted by index
    session_results,  \* st.session_state.results
    configError,      \* the last press lacked the key or the files, or named a
                      \* Drive folder that is not accessible
    summary,          \* main(): len(successful), len(failed), num_images
    uploaded,         \* files this run created in the Drive folder, in order
    archive,          \* entries written to the ZIP buffer, in order
    offered           \* the download button for the ZIP has been shown

vars == <<phase, lastRun, file_data_list, ratio, job, issued, outcome, acquired,
          outOfOrder, gathered, results, sorted_results, session_results,
          configError, summary, uploaded, archive, offered>>

Indices == DOMAIN job

NoOutcome == [tag |-> "none", success |-> FALSE, index |-> -1,
              original_name |-> "", error |-> <<>>, generated_image |-> <<>>]

\* Bytes of the image generated for input i.
Img(i) ==
    CASE i = 0 -> "img0" [] i = 1 -> "img1" [] i = 2 -> "img2" [] OTHER -> "img3"

\* base64.b64encode(...).decode()
B64Encode(b) ==
    CASE b = "img0" -> "aW1nMA==" [] b = "img1" -> "aW1nMQ=="
      [] b = "img2" -> "aW1nMg==" [] b = "img3" -> "aW1nMw=="
      [] OTHER -> "Pw=="

\* The image url of a generation reply: "data:image/png;base64,<base64>".
DataUrl(i) == <<"data:image/png;base64", ",", B64Encode(Img(i))>>

\* An image url that is no data URL and holds no comma.
PlainUrl == <<"https://cdn.example/img.png">>

\* r["choices"][0]["message"]["images"][0]["image_url"]["url"]
ImageUrlOf(reply, i) == IF reply = "ok_plainurl" THEN PlainUrl ELSE DataUrl(i)

\* The dict returned at main_app_new.py:270.
SuccessDict(i, name, url) ==
    [tag |-> "dict", success |-> TRUE, index |-> i,
     original_name |-> name, error |-> <<>>, generated_image |-> url]

\* The dict returned at main_app_new.py:281.
FailureDict(i, name, err) ==
    [tag |-> "dict", success |-> FALSE, index |-> i,
     original_name |-> name, error |-> err, generated_image |-> <<>>]

\* An exception that left the task; gather(return_exceptions=True) returns it.
ExceptionObj(e) ==
    [tag |-> "exc", success |-> FALSE, index |-> -1,
     original_name |-> "", error |-> <<StrOf(e)>>, generated_image |-> <<>>]

\* Locals of a task that has not run yet.
NewJob ==
    [pc |-> "start", label |-> None, attempt |-> 0, last_error |-> None,
     exc |-> None, posts |-> 0, fails |-> 0, slept |-> 0, anyFail |-> FALSE,
     okCalls |-> 0]

\* A finished task: the call's locals are gone; label is the stage it ended in.
\* okCalls counts the calls of the job that returned a response.
DoneJob(label, anyFail, okCalls) ==
    [pc |-> "done", label |-> label, attempt |-> 0, last_error |-> None,
     exc |-> None, posts |-> 0, fails |-> 0, slept |-> 0, anyFail |-> anyFail,
     okCalls |-> okCalls]

FileData == [name : Names, encodable : BOOLEAN]

RECURSIVE SeqsUpTo(_, _)
SeqsUpTo(S, n) ==
    IF n = 0 THEN {<<>>}
    ELSE LET shorter == SeqsUpTo(S, n - 1)
         IN shorter \cup {Append(s, x) : s \in {t \in shorter : Len(t) = n - 1}, x \in S}

Init ==
    /\ phase = "idle"
    /\ lastRun = "none"
    /\ file_data_list = <<>>
    /\ ratio = None
    /\ job = <<>>
    /\ issued = <<>>
    /\ outcome = <<>>
    /\ acquired = 0
    /\ outOfOrder = FALSE
    /\ gathered = "pending"
    /\ results = <<>>
    /\ sorted_results = <<>>
    /\ session_results = <<>>
    /\ configError = FALSE
    /\ summary = [succeeded |-> 0, failed |-> 0, total |-> 0]
    /\ uploaded = <<>>
    /\ archive = <<>>
    /\ offered = FALSE

\* What main() writes after the batch has run.
mainOut == <<summary, uploaded, archive, offered>>


(* ------------------------- the script run: main ----------------------- *)

\* The press cannot be served: no key, no files, or a Drive URL whose folder
\* the service account cannot read (lines 340, 349-353).
ConfigError(api_key, files, drive_enabled, accessible) ==
    api_key = "" \/ files = <<>> \/ (drive_enabled /\ ~accessible)

\* Variant: the line that clears the stored results is missing.
StoredAtStartKept(stored) == stored

\* st.session_state.results = []  (line 371, before the batch is started)
StoredAtStart(stored) == <<>>

\* Variant: the key is not looked at.
RejectedKeyUnchecked(run, api_key, files) == ~run \/ files = <<>>

\* if not run or not api_key or not files: return
Rejected(run, api_key, files) == ~run \/ api_key = "" \/ files = <<>>

\* main_app_new.py:340-371.  One press of the widgets: the guard, the Drive
\* check, the pre-read of the files, the reset of the stored results and the
\* creation of one task per file.
Rerun(run, api_key, files, r, drive_enabled, accessible) ==
    /\ phase = "idle"
    /\ configError' = ConfigError(api_key, files, drive_enabled, accessible)
    /\ IF Rejected(run, api_key, files)
       THEN /\ lastRun' = "rejected"
            /\ UNCHANGED <<phase, file_data_list, ratio, job, issued, outcome,
                           session_results>>
       ELSE IF drive_enabled /\ ~accessible
       THEN /\ lastRun' = "stopped"
            /\ phase' = "stopped"
            /\ UNCHANGED <<file_data_list, ratio, job, issued, outcome,
                           session_results>>
       ELSE /\ lastRun' = "processing"
            /\ phase' = "processing"
            /\ file_data_list' = files
            /\ ratio' = r
            /\ session_results' = StoredAtStart(session_results)
            /\ job' = [i \in 0..(Len(files) - 1) |-> NewJob]
            /\ issued' = [i \in 0..(Len(files) - 1) |-> {}]
            /\ outcome' = [i \in 0..(Len(files) - 1) |-> NoOutcome]
    /\ UNCHANGED <<acquired, outOfOrder, gathered, results, sorted_results, mainOut>>

(* -------------------- one job: async_process_single_image ------------- *)

fd(j) == file_data_list[j + 1]

\* The first iteration of the retry loop of a fresh call: session.post().
BeginCall(label, anyFail, okCalls) ==
    [pc |-> "wait", label |-> label, attempt |-> 1, last_error |-> None,
     exc |-> None, posts |-> 1, fails |-> 0, slept |-> 0, anyFail |-> anyFail,
     okCalls |-> okCalls]

\* Variant: the error is recorded but the job goes on to the generation call.
AfterFailureContinue(rec) ==
    [pc |-> "wait", label |-> GENERATION, attempt |-> 1, last_error |-> None,
     exc |-> None, posts |-> 1, fails |-> 0, slept |-> 0, anyFail |-> TRUE,
     okCalls |-> rec.okCalls]

\* An exception leaves the try block (line 279): the stages not yet run are
\* skipped and the task ends.
AfterFailure(rec) == DoneJob(rec.label, TRUE, rec.okCalls)

\* except Exception as e (main_app_new.py:279-288): the failure dict, whose
\* construction encodes the input once more.
Handler(j, err) ==
    IF fd(j).encodable
    THEN FailureDict(j, fd(j).name, err)
    ELSE ExceptionObj("encode")

\* The task ends with result out.
Finish(j, out) ==
    /\ outcome' = [outcome EXCEPT ![j] = out]
    /\ outOfOrder' = (outOfOrder \/ \E k \in Indices : k < j /\ job[k].pc # "done")

\* Variant: the aspect analysis runs whatever the ratio.
NextLabelIgnoreRatio(label, r) ==
    CASE label = LOCALIZATION -> ASPECT
      [] label = ASPECT -> GENERATION
      [] OTHER -> None

\* The stage after a successful call, or None when the job is complete.
NextLabel(label, r) ==
    CASE label = LOCALIZATION -> IF r # None THEN ASPECT ELSE GENERATION
      [] label = ASPECT -> GENERATION
      [] OTHER -> None

\* main_app_new.py:250-257: the task starts, encodes the input and posts the
\* localization request.
StartJob(j) ==
    /\ job[j].pc = "start"
    /\ IF fd(j).encodable
       THEN /\ job' = [job EXCEPT ![j] = BeginCall(LOCALIZATION, FALSE, 0)]
            /\ issued' = [issued EXCEPT ![j] = @ \cup {LOCALIZATION}]
            /\ UNCHANGED <<outcome, outOfOrder>>
       ELSE /\ job' = [job EXCEPT ![j] = DoneJob(None, FALSE, 0)]
            /\ Finish(j, Handler(j, <<StrOf("encode")>>))
            /\ UNCHANGED issued
    /\ UNCHANGED <<phase, lastRun, file_data_list, ratio, acquired, gathered,
                   results, sorted_results, session_results>>
    /\ UNCHANGED <<configError, mainOut>>

\* Variant: the limit is compared off by one.
ConnectorHasRoomOffByOne(n) == n <= MAX_WORKERS

\* TCPConnector(limit=MAX_WORKERS): a free connection is handed to the request.
ConnectorHasRoom(n) == n < MAX_WORKERS

Acquire(j) ==
    /\ job[j].pc = "wait"
    /\ ConnectorHasRoom(acquired)
    /\ acquired' = acquired + 1
    /\ job' = [job EXCEPT ![j].pc = "inflight"]
    /\ UNCHANGED <<phase, lastRun, file_data_list, ratio, issued, outcome,
                   outOfOrder, gathered, results, sorted_results, session_results>>
    /\ UNCHANGED <<configError, mainOut>>

\* Variant: last_error is set only by the first failure of the call.
OnCaughtKeepFirst(rec, e) ==
    [rec EXCEPT !.pc = "sleep",
                !.last_error = IF @ = None THEN StrOf(e) ELSE @,
                !.exc = e, !.fails = @ + 1, !.anyFail = TRUE]

\* except (aiohttp.ClientError, asyncio.TimeoutError) as e  (lines 133-135)
OnCaught(rec, e) ==
    [rec EXCEPT !.pc = "sleep", !.last_error = StrOf(e), !.exc = e, !.fails = @ + 1,
                !.anyFail = TRUE]

\* Variant: the loop also catches the KeyError of a reply without images.
IsCaughtBroad(e) == e \in Caught \cup {"noimage"}

\* Does the retry loop handle this exception itself?
IsCaught(e) == e \in Caught

\* The total timeout expires while the request still waits for a connection.
TimeoutWaiting(j) ==
    /\ job[j].pc = "wait"
    /\ job' = [job EXCEPT ![j] = OnCaught(@, "timeout")]
    /\ UNCHANGED <<phase, lastRun, file_data_list, ratio, issued, outcome, acquired,
                   outOfOrder, gathered, results, sorted_results, session_results>>
    /\ UNCHANGED <<configError, mainOut>>

\* Variant: the connection is never handed back.
ReleaseLeak(n) == n

\* Leaving "async with session.post(...)": the connection goes back to the pool.
Release(n) == n - 1

\* What a request of the stage can yield: only a generation reply is read
\* for images.
RepliesFor(label) ==
    IF label = GENERATION THEN Replies ELSE Replies \ {"ok_plainurl", "noimage"}

\* The call returns the body and the stage finds the fields it reads:
\* choices[0].message.content for the analyses (lines 178, 211),
\* choices[0].message.images[0].image_url.url for the generation (line 231).
Usable(label, reply) == reply \in {"ok", "ok_plainurl"}

\* The request in flight ends with reply (lines 125-135).
Respond(j, reply) ==
    /\ job[j].pc = "inflight"
    /\ reply \in RepliesFor(job[j].label)
    /\ acquired' = Release(acquired)
    /\ IF Usable(job[j].label, reply)
       THEN LET nxt == NextLabel(job[j].label, ratio)
            IN IF nxt # None
               THEN /\ job' = [job EXCEPT ![j] = BeginCall(nxt, job[j].anyFail,
                                                           job[j].okCalls + 1)]
                    /\ issued' = [issued EXCEPT ![j] = @ \cup {nxt}]
                    /\ UNCHANGED <<outcome, outOfOrder>>
               ELSE /\ job' = [job EXCEPT ![j] = DoneJob(job[j].label, job[j].anyFail,
                                                         job[j].okCalls + 1)]
                    /\ Finish(j, SuccessDict(j, fd(j).name, ImageUrlOf(reply, j)))
                    /\ UNCHANGED issued
       ELSE IF IsCaught(reply)
       THEN /\ job' = [job EXCEPT ![j] = OnCaught(@, reply)]
            /\ UNCHANGED <<issued, outcome, outOfOrder>>
       ELSE /\ job' = [job EXCEPT ![j] = AfterFailure(job[j])]
            /\ Finish(j, Handler(j, <<StrOf(reply)>>))
            /\ UNCHANGED issued
    /\ UNCHANGED <<phase, lastRun, file_data_list, ratio, gathered, results,
                   sorted_results, session_results>>
    /\ UNCHANGED <<configError, mainOut>>

\* Variant: range(1, MAX_RETRIES), one iteration short.
HasNextAttemptShort(attempt) == attempt + 1 < MAX_RETRIES

\* for attempt in range(1, MAX_RETRIES + 1): is there another iteration?
HasNextAttempt(attempt) == attempt + 1 <= MAX_RETRIES

\* asyncio.sleep() returns: the next iteration posts again, or the loop is
\* over and RuntimeError reaches the job's handler (lines 135-137, 279).
Wake(j) ==
    /\ job[j].pc = "sleep"
    /\ IF HasNextAttempt(job[j].attempt)
       THEN /\ job' = [job EXCEPT ![j].pc = "wait", ![j].attempt = @ + 1,
                                  ![j].posts = @ + 1,
                                  ![j].slept = @ + BackoffDelay(job[j].attempt)]
            /\ UNCHANGED <<outcome, outOfOrder>>
       ELSE /\ job' = [job EXCEPT ![j] = AfterFailure(job[j])]
            /\ Finish(j, Handler(j, ExhaustedMsg(job[j].label, job[j].last_error)))
    /\ UNCHANGED <<phase, lastRun, file_data_list, ratio, issued, acquired, gathered,
                   results, sorted_results, session_results>>
    /\ UNCHANGED <<configError, mainOut>>

(* ------------- process_all_images_async returns; main goes on --------- *)

\* Variant: a task that met a failure is never seen as finished.
GatherReadyNoFailure(jb) == \A j \in DOMAIN jb : jb[j].pc = "done" /\ ~jb[j].anyFail

\* Variant: the wait ends with the first finished task.
GatherFirstCompleted(jb) == \E j \in DOMAIN jb : jb[j].pc = "done"

\* asyncio.gather(*tasks, return_exceptions=True) completes.
GatherReady(jb) == \A j \in DOMAIN jb : jb[j].pc = "done"

\* Variant: return_exceptions=False, a task's exception is raised to the caller.
GatherValueRaising(outs) ==
    [status |-> IF \E i \in DOMAIN outs : outs[i].tag = "exc" THEN "raised" ELSE "returned",
     value |-> [i \in 1..Cardinality(DOMAIN outs) |-> outs[i - 1]]]

\* Its value: the tasks' results and exceptions, in the order of the tasks.
GatherValue(outs) ==
    [status |-> "returned", value |-> [i \in 1..Cardinality(DOMAIN outs) |-> outs[i - 1]]]

IsDict(r) == r.tag = "dict"

\* Variant: the sort runs in descending order (reverse=True).
RECURSIVE InsertByIndexDesc(_, _)
InsertByIndexDesc(s, r) ==
    IF s = <<>> THEN <<r>>
    ELSE IF s[Len(s)].index >= r.index THEN Append(s, r)
    ELSE Append(InsertByIndexDesc(SubSeq(s, 1, Len(s) - 1), r), s[Len(s)])

\* sorted(..., key=lambda x: x.get("index", 0)): a stable insertion sort.
RECURSIVE InsertByIndex(_, _)
InsertByIndex(s, r) ==
    IF s = <<>> THEN <<r>>
    ELSE IF s[Len(s)].index <= r.index THEN Append(s, r)
    ELSE Append(InsertByIndex(SubSeq(s, 1, Len(s) - 1), r), s[Len(s)])

RECURSIVE SortedByIndex(_)
SortedByIndex(s) ==
    IF s = <<>> THEN <<>>
    ELSE InsertByIndex(SortedByIndex(SubSeq(s, 1, Len(s) - 1)), s[Len(s)])

IsSuccess(r) == r.success

\* len(successful), len(failed), num_images (lines 367, 396-401).
Summary(res, num_images) ==
    [succeeded |-> Len(SelectSeq(res, LAMBDA r : IsDict(r) /\ r.success)),
     failed |-> Len(SelectSeq(res, LAMBDA r : IsDict(r) /\ ~r.success)),
     total |-> num_images]

\* header, encoded = url.split(",", 1): the position of the first comma, 0 if
\* there is none (the unpacking then raises ValueError).
FirstComma(url) ==
    IF \E k \in 1..Len(url) : url[k] = ","
    THEN CHOOSE k \in 1..Len(url) : url[k] = "," /\ \A m \in 1..(k - 1) : url[m] # ","
    ELSE 0

\* base64.b64decode(encoded): the bytes, or "" with ok = FALSE when the text
\* is not base64 of an image.
B64Decode(enc) ==
    IF Len(enc) # 1 THEN [ok |-> FALSE, data |-> ""]
    ELSE CASE enc[1] = "aW1nMA==" -> [ok |-> TRUE, data |-> "img0"]
           [] enc[1] = "aW1nMQ==" -> [ok |-> TRUE, data |-> "img1"]
           [] enc[1] = "aW1nMg==" -> [ok |-> TRUE, data |-> "img2"]
           [] enc[1] = "aW1nMw==" -> [ok |-> TRUE, data |-> "img3"]
           [] OTHER -> [ok |-> FALSE, data |-> ""]

\* Lines 442-443 and 464-467: split the stored url and decode its payload.
DecodeImage(url) ==
    LET k == FirstComma(url)
    IN IF k = 0 THEN [ok |-> FALSE, data |-> ""]
       ELSE B64Decode(SubSeq(url, k + 1, Len(url)))

\* Variant: the entry is named by the original name alone.
EntryNameBare(name) == <<name>>

\* f"generated_{item['original_name']}"
EntryName(name) == <<"generated_", name>>

\* Lines 463-468: one writestr per stored result, until a payload does not
\* decode; ok tells whether the loop ran to its end.
RECURSIVE ZipWrite(_)
ZipWrite(items) ==
    IF items = <<>> THEN [entries |-> <<>>, ok |-> TRUE]
    ELSE LET d == DecodeImage(Head(items).generated_image)
         IN IF ~d.ok THEN [entries |-> <<>>, ok |-> FALSE]
            ELSE LET rest == ZipWrite(Tail(items))
                 IN [entries |-> <<[name |-> EntryName(Head(items).original_name),
                                    data |-> d.data]>> \o rest.entries,
                     ok |-> rest.ok]

\* Lines 441-452: decode, write the temporary file, upload it, remove it, until
\* a payload does not decode or Drive refuses an upload.
RECURSIVE UploadAll(_, _)
UploadAll(items, driveOk) ==
    IF items = <<>> THEN [entries |-> <<>>, ok |-> TRUE]
    ELSE LET d == DecodeImage(Head(items).generated_image)
         IN IF ~d.ok \/ ~driveOk THEN [entries |-> <<>>, ok |-> FALSE]
            ELSE LET rest == UploadAll(Tail(items), driveOk)
                 IN [entries |-> <<[name |-> EntryName(Head(items).original_name),
                                    data |-> d.data]>> \o rest.entries,
                     ok |-> rest.ok]

\* main_app_new.py:381-475: asyncio.run returns, the counts are taken, the
\* dicts are sorted by index, the successes are appended to the stored
\* results, uploaded to Drive when a folder was given, and zipped.  An
\* exception in the upload or the ZIP loop ends the script run there.
\* drive_enabled is the Drive choice of this press (line 345), which nothing
\* reads before line 439; driveOk tells whether Drive accepts the uploads.
ProcessingDone(drive_enabled, driveOk) ==
    /\ phase = "processing"
    /\ GatherReady(job)
    /\ LET g == GatherValue(outcome)
       IN /\ gathered' = g.status
          /\ IF g.status = "returned"
             THEN LET sr == SortedByIndex(SelectSeq(g.value, IsDict))
                      stored == session_results \o SelectSeq(sr, IsSuccess)
                      up == IF drive_enabled /\ stored # <<>>
                            THEN UploadAll(stored, driveOk)
                            ELSE [entries |-> <<>>, ok |-> TRUE]
                      zp == IF up.ok /\ stored # <<>>
                            THEN ZipWrite(stored)
                            ELSE [entries |-> <<>>, ok |-> up.ok]
                  IN /\ results' = g.value
                     /\ summary' = Summary(g.value, Len(file_data_list))
                     /\ sorted_results' = sr
                     /\ session_results' = stored
                     /\ uploaded' = up.entries
                     /\ archive' = zp.entries
                     /\ offered' = (up.ok /\ zp.ok /\ stored # <<>>)
                     /\ phase' = IF ~up.ok THEN "upload_error"
                                 ELSE IF ~zp.ok THEN "zip_error"
                                 ELSE "finished"
             ELSE /\ phase' = "crashed"
                  /\ UNCHANGED <<results, sorted_results, session_results, mainOut>>
    /\ UNCHANGED <<lastRun, file_data_list, ratio, job, issued, outcome, acquired,
                   outOfOrder, configError>>

(* ---------------------------- specification --------------------------- *)

\* The script run is over (main returned, raised or stopped). The next
\* interaction runs main() again from its first line: every local of the
\* last run is gone and only st.session_state is kept (lines 326-327).
ScriptEnd ==
    /\ phase \in {"finished", "stopped", "upload_error", "zip_error", "crashed"}
    /\ phase' = "idle"
    /\ file_data_list' = <<>>
    /\ ratio' = None
    /\ job' = <<>>
    /\ issued' = <<>>
    /\ outcome' = <<>>
    /\ outOfOrder' = FALSE
    /\ gathered' = "pending"
    /\ results' = <<>>
    /\ sorted_results' = <<>>
    /\ summary' = [succeeded |-> 0, failed |-> 0, total |-> 0]
    /\ uploaded' = <<>>
    /\ archive' = <<>>
    /\ offered' = FALSE
    /\ UNCHANGED <<lastRun, acquired, session_results, configError>>

Files == SeqsUpTo(FileData, MaxBatch)

Next ==
    \/ /\ phase = "idle"
       /\ \E run \in BOOLEAN, api_key \in {"", "sk-key"}, files \in Files, r \in Ratios,
             drive_enabled \in BOOLEAN, accessible \in BOOLEAN :
             Rerun(run, api_key, files, r, drive_enabled, accessible)
    \/ \E j \in Indices : StartJob(j)
    \/ \E j \in Indices : Acquire(j)
    \/ \E j \in Indices : TimeoutWaiting(j)
    \/ \E j \in Indices, reply \in Replies : Respond(j, reply)
    \/ \E j \in Indices : Wake(j)
    \/ \E drive_enabled \in BOOLEAN, driveOk \in BOOLEAN :
          ProcessingDone(drive_enabled, driveOk)
    \/ ScriptEnd

Spec == Init /\ [][Next]_vars

\* What the event loop and the request timeout guarantee: a started task
\* runs, a sleep ends, a request in flight is answered or fails, a request
\* waiting for a connection gets one or runs into the total timeout
\* (ClientTimeout(total=REQUEST_TIMEOUT) covers the wait), and main goes on
\* when asyncio.run returns. Nothing obliges the user to press again.
Fairness ==
    /\ \A j \in 0..(MaxBatch - 1) :
          /\ WF_vars(j \in Indices /\ StartJob(j))
          /\ WF_vars(j \in Indices /\ (Acquire(j) \/ TimeoutWaiting(j)))
          /\ WF_vars(j \in Indices /\ \E reply \in Replies : Respond(j, reply))
          /\ WF_vars(j \in Indices /\ Wake(j))
    /\ WF_vars(\E drive_enabled \in BOOLEAN, driveOk \in BOOLEAN :
                  ProcessingDone(drive_enabled, driveOk))

SpecFair == Init /\ [][Next]_vars /\ Fairness

(* ------------------------------ properties ---------------------------- *)

N == Len(file_data_list)

InFlight == {j \in Indices : job[j].pc = "inflight"}

IsFailure(r) == r.tag = "dict" /\ ~r.success

IsSuccessDict(r) == r.tag = "dict" /\ r.success

\* C1: once the run has finished, process_all_images_async has returned N
\* results and the index-sorted list of main holds exactly one record for
\* every input index 0..N-1, whatever failed, the encoding of an input
\* included.
C1_OneOutcomePerInput ==
    phase = "finished" =>
        /\ Len(results) = N
        /\ Len(sorted_results) = N
        /\ \A i \in 0..(N - 1) :
              Cardinality({k \in 1..Len(sorted_results) :
                              /\ sorted_results[k].tag = "dict"
                              /\ sorted_results[k].index = i}) = 1

\* C2: at no point do more than MAX_WORKERS jobs have a request in flight.
C2_InFlightBounded == Cardinality(InFlight) <= MAX_WORKERS

\* C2 witness: the connector is full while a further job waits for a slot.
C2_Witness ==
    /\ Cardinality(InFlight) = MAX_WORKERS
    /\ \E j \in Indices : job[j].pc = "wait"

\* C3: a job that ended in a failed stage has a Failure outcome of its own
\* index; every finished job that made remote calls none of which failed has
\* a Success outcome, whatever its siblings did; the batch is never aborted.
C3_FailureIsolated ==
    /\ gathered # "raised"
    /\ phase # "crashed"
    /\ \A j \in Indices :
          /\ (job[j].pc = "done" /\ job[j].label # None /\ job[j].anyFail
                 /\ ~IsSuccessDict(outcome[j]))
                => (IsFailure(outcome[j]) /\ outcome[j].index = j)
          /\ (job[j].pc = "done" /\ issued[j] # {} /\ ~job[j].anyFail)
                => IsSuccessDict(outcome[j])

\* C3 witness: the batch has finished with a failed job next to a sibling
\* that succeeded without any failure of its own.
C3_Witness ==
    /\ phase = "finished"
    /\ \E j, k \in Indices :
          /\ j # k
          /\ IsFailure(outcome[j])
          /\ IsSuccessDict(outcome[k]) /\ ~job[k].anyFail

\* Errors the specification classes as fatal: a 4xx response, a malformed body.
FatalKinds == {"http4xx", "badjson", "nofield"}

\* C4: a call that met a fatal error has made one attempt, has not slept and
\* is over: it neither sleeps in backoff nor posts again.
C4_FatalNotRetried ==
    \A j \in Indices :
        job[j].exc \in FatalKinds =>
            /\ job[j].pc \notin {"sleep", "wait", "inflight"}
            /\ job[j].posts = 1
            /\ job[j].slept = 0

\* C5: a call gives up only after its MAX_RETRIES-th failure, it has then
\* posted exactly MAX_RETRIES times, and the error it raises names the call's
\* label and carries str() of the last exception caught.
C5_ExhaustedAfterMaxRetries ==
    [][\A j \in Indices :
          (job[j].pc = "sleep" /\ job'[j].pc = "done") =>
              /\ job[j].fails = MAX_RETRIES
              /\ job[j].posts = MAX_RETRIES
              /\ outcome'[j].error = ExhaustedMsg(job[j].label, StrOf(job[j].exc))]_vars

\* C5 witness: a job failed with the exhausted error of its generation call
\* whose last failure was a timeout.
C5_Witness ==
    \E j \in Indices :
        /\ IsFailure(outcome[j])
        /\ outcome[j].error = ExhaustedMsg(GENERATION, StrOf("timeout"))

\* C6: a call whose request succeeds after k failures returns after k+1
\* posts, k <= MAX_RETRIES-1, with no error; and after k < MAX_RETRIES
\* failures the call does not give up but posts attempt k+1.
C6_SuccessAfterKFailures ==
    [][\A j \in Indices :
          /\ (job[j].pc = "inflight" /\ job'[j].pc # "sleep"
                 /\ (job'[j].pc = "done" => IsSuccessDict(outcome'[j])))
                => (/\ job[j].posts = job[j].fails + 1
                    /\ job[j].fails <= MAX_RETRIES - 1
                    /\ job'[j].anyFail = job[j].anyFail)
          /\ (job[j].pc = "sleep" /\ job[j].fails < MAX_RETRIES /\ job'[j] # job[j])
                => (/\ job'[j].pc = "wait"
                    /\ job'[j].posts = job[j].fails + 1
                    /\ outcome'[j] = NoOutcome)]_vars

\* C6 witness: a request is in flight as the last permitted attempt, after
\* MAX_RETRIES-1 failures, and a job has succeeded after failures of its own.
C6_Witness ==
    /\ \E j \in Indices : job[j].pc = "inflight" /\ job[j].fails = MAX_RETRIES - 1
    /\ \E k \in Indices : IsSuccessDict(outcome[k]) /\ job[k].anyFail

\* C7: the sorted result list is in strictly ascending index order and each
\* record carries the name of the input submitted at that index.
C7_SortedByIndex ==
    gathered = "returned" =>
        /\ \A a, b \in 1..Len(sorted_results) :
              a < b => sorted_results[a].index < sorted_results[b].index
        /\ \A a \in 1..Len(sorted_results) :
              /\ sorted_results[a].index \in 0..(N - 1)
              /\ sorted_results[a].original_name = fd(sorted_results[a].index).name

\* C7 witness: the jobs finished out of index order and several are listed.
C7_Witness ==
    /\ phase = "finished"
    /\ outOfOrder
    /\ Len(sorted_results) >= 2

\* C8: a job with a failure outcome is over; if it failed in localization it
\* has posted no aspect and no generation request, and if it failed in aspect
\* analysis it has posted no generation request.
C8_NoCallAfterFailedStage ==
    \A j \in Indices :
        IsFailure(outcome[j]) =>
            /\ job[j].pc = "done"
            /\ job[j].label = LOCALIZATION => issued[j] = {LOCALIZATION}
            /\ job[j].label = ASPECT => GENERATION \notin issued[j]

\* C8 witness: with a ratio requested, one job failed in localization and
\* another in aspect analysis.
C8_Witness ==
    /\ ratio # None
    /\ \E j, k \in Indices :
          /\ IsFailure(outcome[j]) /\ job[j].label = LOCALIZATION
          /\ IsFailure(outcome[k]) /\ job[k].label = ASPECT

\* A job that has had a request answered or in flight and has no outcome yet.
Started(j) ==
    \/ job[j].pc = "inflight"
    \/ job[j].pc \in {"wait", "sleep"} /\ job[j].label \in {ASPECT, GENERATION}

\* C9 as stated: at most MAX_WORKERS jobs are between their first network
\* call and their terminal outcome.
C9_SlotHeldUntilOutcome ==
    Cardinality({j \in Indices : Started(j)}) <= MAX_WORKERS

\* C9 as amended: the slots handed out are exactly those of the requests in
\* flight, so a job that sleeps, waits between attempts or stages, or has
\* finished holds none, and never more than MAX_WORKERS are handed out.
C9_SlotHeldPerAttempt ==
    /\ acquired = Cardinality(InFlight)
    /\ acquired \in 0..MAX_WORKERS

\* C9 witness: every slot is taken while another job, already past its first
\* call, sleeps in backoff without one.
C9_Witness ==
    /\ acquired = MAX_WORKERS
    /\ \E j \in Indices : job[j].pc = "sleep" /\ job[j].label = GENERATION

\* C10: when process_all_images_async has returned, every job is over, has
\* its outcome, and no request is waiting, in flight or in backoff.
C10_ReturnsAfterAllDone ==
    gathered = "returned" =>
        /\ \A j \in Indices : job[j].pc = "done" /\ outcome[j] # NoOutcome
        /\ Len(results) = N
        /\ acquired = 0

\* C10 witness: the call returned for a full batch in which a job had slept
\* in backoff and jobs finished out of index order.
C10_Witness ==
    /\ gathered = "returned"
    /\ N = MaxBatch
    /\ outOfOrder
    /\ \E j \in Indices : job[j].anyFail

\* Calls a job makes when nothing fails: two without a ratio, three with.
StagesToRun == IF ratio = None THEN 2 ELSE 3

\* C11: the summary counts agree with the outcomes: succeeded is the number
\* of jobs all of whose stages succeeded, failed the number of jobs with a
\* failed stage, and succeeded + failed = total = N.
C11_SummaryConsistent ==
    gathered = "returned" =>
        /\ summary.succeeded = Cardinality({j \in Indices : job[j].okCalls = StagesToRun})
        /\ summary.failed =
              Cardinality({j \in Indices : job[j].label # None /\ job[j].okCalls < StagesToRun})
        /\ summary.total = N
        /\ summary.succeeded + summary.failed = summary.total

\* C12: an archive that is offered holds, in index order, one entry per
\* Success outcome and none for a Failure; each entry is named "generated_" +
\* the success's original name and holds the image generated for that job.
C12_ArchiveMatchesSuccesses ==
    offered =>
        LET succ == SelectSeq(sorted_results, IsSuccess)
        IN /\ Len(archive) = Len(succ)
           /\ Len(archive) = Cardinality({j \in Indices : IsSuccessDict(outcome[j])})
           /\ \A k \in 1..Len(archive) :
                 /\ k <= Len(succ)
                 /\ archive[k].name = <<"generated_", succ[k].original_name>>
                 /\ archive[k].data = Img(succ[k].index)

\* C12 witness: an archive is offered for a batch with a success and a failure.
C12_Witness ==
    /\ offered
    /\ Len(archive) >= 1
    /\ \E j \in Indices : IsFailure(outcome[j])

\* C13: the names of the archive entries are pairwise distinct, and so are
\* the names of the uploaded files, also when two successes share their
\* original name.
C13_DerivedNamesDistinct ==
    /\ \A a, b \in 1..Len(archive) : a # b => archive[a].name # archive[b].name
    /\ \A a, b \in 1..Len(uploaded) : a # b => uploaded[a].name # uploaded[b].name

\* C14: once archive construction is reached with stored successes, the
\* archive is offered and holds an entry for every success whose payload
\* decodes, whatever the other payloads are.
C14_DecodeFailureIsolated ==
    (phase \in {"finished", "zip_error"} /\ session_results # <<>>) =>
        /\ offered
        /\ \A k \in 1..Len(session_results) :
              DecodeImage(session_results[k].generated_image).ok =>
                 \E e \in 1..Len(archive) :
                    archive[e].data = Img(session_results[k].index)

\* C15: a generation reply without an image payload is never retried and
\* ends the job at once in a Failure outcome; a Success outcome always carries
\* an image url.
C15_NoImageIsFailure ==
    \A j \in Indices :
        /\ job[j].exc # "noimage"
        /\ outcome[j].error = <<StrOf("noimage")>> =>
              /\ IsFailure(outcome[j])
              /\ job[j].pc = "done"
              /\ job[j].label = GENERATION
              /\ job[j].okCalls = StagesToRun - 1
        /\ IsSuccessDict(outcome[j]) => outcome[j].generated_image # <<>>

\* C15 witness: a job failed on a generation reply without images.
C15_Witness ==
    \E j \in Indices :
        /\ IsFailure(outcome[j])
        /\ outcome[j].error = <<StrOf("noimage")>>

\* C16: the sleep that precedes attempt k of a call, 2 <= k <= MAX_RETRIES,
\* lasts 2^(k-2) units, and a call starts its first attempt without any sleep.
C16_BackoffBeforeAttempt ==
    [][\A j \in Indices \cap DOMAIN job' :
          /\ (job[j].pc = "sleep" /\ job'[j].pc = "wait")
                => (/\ job'[j].attempt \in 2..MAX_RETRIES
                    /\ job'[j].slept - job[j].slept = Pow2(job'[j].attempt - 2))
          /\ (job'[j].pc = "wait" /\ job'[j].attempt = 1 /\ job[j].pc # "wait")
                => job'[j].slept = 0]_vars

\* C16 witness: a call is at its third attempt after sleeping 1 and then 2.
C16_Witness ==
    \E j \in Indices : job[j].pc = "wait" /\ job[j].attempt = 3 /\ job[j].slept = 3

\* C17: a connection is taken exactly when a waiting request goes in flight
\* and handed back exactly when that attempt ends, however it ends; once the
\* batch has returned no connection is held.
C17_ConnectionScopedToAttempt ==
    /\ [](gathered = "returned" => acquired = 0)
    /\ [][\A j \in Indices \cap DOMAIN job' :
             /\ (job[j].pc = "inflight" /\ job'[j].pc # "inflight")
                   => acquired' = acquired - 1
             /\ (job[j].pc # "inflight" /\ job'[j].pc = "inflight")
                   => (job[j].pc = "wait" /\ acquired' = acquired + 1)
             /\ (job[j].pc \in {"sleep", "start", "done"} /\ job'[j].pc # "inflight"
                    /\ job'[j] # job[j])
                   => acquired' = acquired]_vars

\* C17 witness: the batch has returned with no connection held after attempts
\* that ended in a response, in a caught error and in a propagated error.
C17_Witness ==
    /\ gathered = "returned"
    /\ acquired = 0
    /\ \E j, k \in Indices :
          /\ IsSuccessDict(outcome[j]) /\ job[j].anyFail
          /\ IsFailure(outcome[k]) /\ Len(outcome[k].error) = 1

\* C18: every Failure outcome has a field for the kind of the error and a
\* field for its message.
C18_FailureCarriesKind ==
    \A j \in Indices :
        IsFailure(outcome[j]) => {"error_kind", "error"} \subseteq DOMAIN outcome[j]

\* C19: a job posts its aspect request only with a ratio and after the
\* localization, its generation request only after the localization and, with
\* a ratio, the aspect analysis; while it runs stage s every earlier stage has
\* returned exactly once; a Success has one returned call per stage, two
\* without a ratio and three with.
C19_StageOrder ==
    \A j \in Indices :
        /\ ASPECT \in issued[j] => (ratio # None /\ LOCALIZATION \in issued[j])
        /\ GENERATION \in issued[j] =>
              (LOCALIZATION \in issued[j] /\ (ASPECT \in issued[j] <=> ratio # None))
        /\ job[j].pc \in {"wait", "inflight", "sleep"} =>
              (job[j].label \in issued[j] /\ job[j].okCalls = Cardinality(issued[j]) - 1)
        /\ IsSuccessDict(outcome[j]) =>
              /\ job[j].okCalls = Cardinality(issued[j])
              /\ job[j].okCalls = (IF ratio = None THEN 2 ELSE 3)

\* C19 witness: with a ratio, a job succeeded after three returned calls.
C19_Witness ==
    /\ ratio # None
    /\ \E j \in Indices : IsSuccessDict(outcome[j]) /\ job[j].okCalls = 3

\* C20: after a press with a configuration error no job exists, no request
\* has been posted, no outcome or result has been produced and no processing
\* is under way.
C20_ConfigErrorBeforeJobs ==
    configError =>
        /\ job = <<>>
        /\ issued = <<>>
        /\ outcome = <<>>
        /\ results = <<>>
        /\ acquired = 0
        /\ phase \in {"idle", "stopped"}

\* C20 witness: the press named a Drive folder that is not accessible and the
\* script stopped.
C20_Witness ==
    /\ configError
    /\ lastRun = "stopped"
    /\ phase = "stopped"

\* C21: a call never sleeps after the failure of its MAX_RETRIES-th attempt:
\* whenever it is in a backoff sleep another attempt is still to come, so a
\* call sleeps at most MAX_RETRIES - 1 times.
C21_NoSleepAfterFinalAttempt ==
    \A j \in Indices :
        job[j].pc = "sleep" =>
            /\ job[j].attempt < MAX_RETRIES
            /\ job[j].fails <= MAX_RETRIES - 1

\* C22: once a batch is being processed, every task ends with a result and
\* the batch call returns; a request that waits for a connection gets one or
\* fails, it does not wait for ever.
C22_BatchTerminates ==
    /\ (phase = "processing") ~> (gathered = "returned")
    /\ \A j \in 0..(MaxBatch - 1) :
          /\ (phase = "processing" /\ j \in Indices)
                ~> (j \in Indices /\ job[j].pc = "done" /\ outcome[j] # NoOutcome)
          /\ (j \in Indices /\ job[j].pc = "wait")
                ~> (j \in Indices /\ job[j].pc \in {"inflight", "sleep"})

\* C22 witness: a batch larger than the connection limit has returned after
\* one job succeeded past a caught failure and another ran out of attempts.
C22_Witness ==
    /\ gathered = "returned"
    /\ N > MAX_WORKERS
    /\ \E j, k \in Indices :
          /\ IsSuccessDict(outcome[j]) /\ job[j].anyFail
          /\ IsFailure(outcome[k]) /\ Len(outcome[k].error) = 3

\* C23: while a run processes the stored list is empty; when its batch has
\* returned and main has stored the results, the list holds exactly the
\* Success outcomes of this run, by ascending index; a script run that does
\* not start processing, and the end of a script run, leave the list as it is.
C23_StoredResultsOfLastRun ==
    /\ [](phase = "processing" => session_results = <<>>)
    /\ [](gathered = "returned" =>
            /\ Len(session_results) =
                  Cardinality({j \in Indices : IsSuccessDict(outcome[j])})
            /\ \A k \in 1..Len(session_results) :
                  /\ session_results[k].index \in Indices
                  /\ session_results[k] = outcome[session_results[k].index]
                  /\ IsSuccessDict(session_results[k])
                  /\ k > 1 => session_results[k - 1].index < session_results[k].index)
    /\ [][(phase # "processing" /\ phase' # "processing")
             => session_results' = session_results]_vars

\* C23 witness: after a run that stored a success, a press without key or
\* files was rejected and the stored list is still there.
C23_Witness ==
    /\ phase = "idle"
    /\ lastRun = "rejected"
    /\ session_results # <<>>

=============================================================================
